---- MODULE Spec2Model ----
(***************************************************************************)
(* SpanGroups (spacy/tokens/_dict_proxies.py): the dict-like proxy a Doc   *)
(* holds to control access to its span groups, and its two wire formats.   *)
(***************************************************************************)
EXTENDS Integers, Sequences, FiniteSets, TLC

\* ------------------------------------------------------------------ bounds
NumDocs == 2
MaxContainers == 2
MaxListLen == 2
MaxItems == 1
MaxDictLen == 2

Labels == {"A", "B"}
SpanSeqs == {<<>>, <<1>>}
Docs == 1..NumDocs
Slots == 1..MaxContainers
Ids == 1..(MaxContainers * Cardinality(Labels) + 1)

\* Python's None: what a dead weak reference resolves to, and a missing argument.
None == 0

VARIABLES alive, made, doc_ref, data, last
vars == <<alive, made, doc_ref, data, last>>

\* ------------------------------------------------------- sequences, helpers
RECURSIVE Flatten(_)
Flatten(ss) == IF ss = <<>> THEN <<>> ELSE Head(ss) \o Flatten(Tail(ss))

SeqsUpTo(S, n) == UNION {[1..k -> S] : k \in 0..n}

Min(S) == CHOOSE x \in S : \A y \in S : x <= y

\* ------------------------------------------------ the dict under a UserDict
\* A Python dict: insertion-ordered, unique keys; a sequence of [k, v] records.
DictHas(d, k) == \E i \in 1..Len(d) : d[i].k = k
DictIdx(d, k) == CHOOSE i \in 1..Len(d) : d[i].k = k
DictGet(d, k) == d[DictIdx(d, k)].v
DictSet(d, k, v) ==
  IF DictHas(d, k) THEN [d EXCEPT ![DictIdx(d, k)] = [k |-> k, v |-> v]]
  ELSE Append(d, [k |-> k, v |-> v])
DictDel(d, k) == SelectSeq(d, LAMBDA e : e.k # k)
DictKeys(d) == {d[i].k : i \in 1..Len(d)}

\* ------------------------------------------------------------ span groups
\* A SpanGroup object: its identity, the Doc it is bound to, its name, its spans.
Group(id, doc, name, spans) ==
  [kind |-> "group", id |-> id, doc |-> doc, name |-> name, spans |-> spans]
\* A plain iterable of spans, as handed to __setitem__.
Plain(spans) ==
  [kind |-> "plain", id |-> 0, doc |-> None, name |-> "-", spans |-> spans]
NoValue == [kind |-> "none", id |-> 0, doc |-> None, name |-> "-", spans |-> <<>>]

\* value.doc of a SpanGroup: the identity of the Doc it is bound to.
GroupDoc(g) == g.doc

Content(g) == [name |-> g.name, spans |-> g.spans]

\* The character code of a one-character string, and back.
StrCode(s) == IF s = "A" THEN 65 ELSE 66
CodeStr(n) == IF n = 65 THEN "A" ELSE "B"

\* SpanGroup.to_bytes: the name, then the spans, length-prefixed.
GroupToBytes(g) == <<StrCode(g.name), Len(g.spans)>> \o g.spans
\* SpanGroup(doc).from_bytes(b): a new object bound to doc.
GroupFromBytes(id, doc, b) == Group(id, doc, CodeStr(b[1]), SubSeq(b, 3, 2 + b[2]))

IdsOf(d) == {d[i].v.id : i \in 1..Len(d)}
UsedIds(dd) == UNION {IdsOf(dd[c]) : c \in DOMAIN dd}
\* id() of a newly allocated object: one no live object has.
NewId(used) == Min(Ids \ used)

\* id(value) is an address, and only the equality of two ids is observable: the
\* live objects are numbered in the order the containers list them.
Occurrences(dd) == Flatten([c \in Slots |-> [i \in 1..Len(dd[c]) |-> dd[c][i].v.id]])
Rank(occ, id) ==
  Cardinality({occ[j] : j \in 1..Min({i \in 1..Len(occ) : occ[i] = id})})
Renumber(dd) ==
  LET occ == Occurrences(dd)
  IN [c \in Slots |->
       [i \in 1..Len(dd[c]) |->
         [k |-> dd[c][i].k, v |-> [dd[c][i].v EXCEPT !.id = Rank(occ, @)]]]]

\* ------------------------------------------------------ the codec (msgpack)
\* bin 8: a byte string, length-prefixed.
Bin(b) == <<196, Len(b)>> \o b
\* fixstr: a one-character string.
Str(s) == <<161, StrCode(s)>>
\* srsly.msgpack_dumps of a list of byte strings: fixarray header, then the items.
DumpsList(l) == <<144 + Len(l)>> \o Flatten([i \in 1..Len(l) |-> Bin(l[i])])
\* srsly.msgpack_dumps of a dict {bytes: [str, ...]}: fixmap header, then the pairs.
DumpsMap(m) ==
  <<128 + Len(m)>> \o
  Flatten([i \in 1..Len(m) |->
    Bin(m[i].k) \o <<144 + Len(m[i].v)>> \o
    Flatten([j \in 1..Len(m[i].v) |-> Str(m[i].v[j])])])
\* srsly.msgpack_dumps of a small integer: positive fixint.
DumpsInt(n) == <<n>>

RECURSIVE LoadsBins(_, _, _)
LoadsBins(b, pos, n) ==
  IF n = 0 THEN <<>>
  ELSE LET len == b[pos + 1]
       IN <<SubSeq(b, pos + 2, pos + 1 + len)>> \o LoadsBins(b, pos + 2 + len, n - 1)

RECURSIVE LoadsPairs(_, _, _, _)
LoadsPairs(b, pos, n, acc) ==
  IF n = 0 THEN acc
  ELSE LET len == b[pos + 1]
           key == SubSeq(b, pos + 2, pos + 1 + len)
           at  == pos + 2 + len
           m   == b[at] - 144
           keys == [j \in 1..m |-> CodeStr(b[at + 2 * j])]
       IN LoadsPairs(b, at + 1 + 2 * m, n - 1, DictSet(acc, key, keys))

\* srsly.msgpack_loads: the decoded value's shape and, for a list or a dict, its items.
Loads(b) ==
  IF b[1] >= 144 /\ b[1] < 160
  THEN [kind |-> "list", list |-> LoadsBins(b, 2, b[1] - 144), dict |-> <<>>]
  ELSE IF b[1] >= 128 /\ b[1] < 144
  THEN [kind |-> "dict", list |-> <<>>, dict |-> LoadsPairs(b, 2, b[1] - 128, <<>>)]
  ELSE [kind |-> "other", list |-> <<>>, dict |-> <<>>]

\* SpanGroups._EMPTY_BYTES
EMPTY_BYTES == DumpsList(<<>>)

\* ------------------------------------------------------------- SpanGroups
\* self.doc_ref(): the Doc, or None once it has been destroyed.
DocRef(c) == IF doc_ref[c] \in alive THEN doc_ref[c] ELSE None

\* _ensure_doc without its check of the resolved reference.
EnsureDocUnchecked(ref) == "none"

\* _ensure_doc on a resolved reference: ValueError(E866) when the Doc is gone.
EnsureDoc(ref) == IF ref = None THEN "E866" ELSE "none"

\* __setitem__ without its assertion.
SetItemUnchecked(ref, d, key, value, used) ==
  IF value.kind # "group" /\ EnsureDoc(ref) # "none"
  THEN [d |-> d, err |-> EnsureDoc(ref)]
  ELSE LET v == IF value.kind # "group"
                THEN Group(NewId(used \cup IdsOf(d)), ref, key, value.spans)
                ELSE value
       IN [d |-> DictSet(d, key, v), err |-> "none"]

\* __setitem__ on the dict d of a container whose reference resolves to ref.
SetItem(ref, d, key, value, used) ==
  IF value.kind # "group" /\ EnsureDoc(ref) # "none"
  THEN [d |-> d, err |-> EnsureDoc(ref)]
  ELSE LET v == IF value.kind # "group"
                THEN Group(NewId(used \cup IdsOf(d)), ref, key, value.spans)
                ELSE value
       IN IF GroupDoc(v) # ref
          THEN [d |-> d, err |-> "AssertionError"]
          ELSE [d |-> DictSet(d, key, v), err |-> "none"]

\* to_bytes, lines 58-64: id(value) -> [value.to_bytes(), key, ...]
RECURSIVE IdBytesKeys(_, _)
IdBytesKeys(d, acc) ==
  IF d = <<>> THEN acc
  ELSE LET e == Head(d)
           entry == IF DictHas(acc, e.v.id)
                    THEN [bytes |-> DictGet(acc, e.v.id).bytes,
                          keys |-> Append(DictGet(acc, e.v.id).keys, e.k)]
                    ELSE [bytes |-> GroupToBytes(e.v), keys |-> <<e.k>>]
       IN IdBytesKeys(Tail(d), DictSet(acc, e.v.id, entry))

\* to_bytes, line 65: {value_bytes: keys for value_bytes, *keys in ...values()}
RECURSIVE BytesKeys(_, _)
BytesKeys(ibk, acc) ==
  IF ibk = <<>> THEN acc
  ELSE BytesKeys(Tail(ibk), DictSet(acc, Head(ibk).v.bytes, Head(ibk).v.keys))

\* to_bytes without the early return for an empty container.
ToBytesNoSentinel(d) == DumpsMap(BytesKeys(IdBytesKeys(d, <<>>), <<>>))

ToBytes(d) ==
  IF Len(d) = 0 THEN EMPTY_BYTES
  ELSE DumpsMap(BytesKeys(IdBytesKeys(d, <<>>), <<>>))

\* The inner loop binding the first key to the group and each later key to a copy.
RECURSIVE BindKeysCopies(_, _, _, _, _)
BindKeysCopies(ref, d, keys, group, used) ==
  IF keys = <<>> THEN d
  ELSE LET e == SetItem(ref, d, Head(keys), group, used).d
       IN BindKeysCopies(ref, e, Tail(keys),
                         [group EXCEPT !.id = NewId(used \cup IdsOf(e))], used)

\* from_bytes, lines 80-81: for key in keys: self[key] = group
RECURSIVE BindKeys(_, _, _, _, _)
BindKeys(ref, d, keys, group, used) ==
  IF keys = <<>> THEN d
  ELSE BindKeys(ref, SetItem(ref, d, Head(keys), group, used).d, Tail(keys), group, used)

\* from_bytes, lines 78-81: the dict format.
RECURSIVE DecodeDict(_, _, _, _)
DecodeDict(ref, d, items, used) ==
  IF items = <<>> THEN d
  ELSE LET group == GroupFromBytes(NewId(used \cup IdsOf(d)), ref, Head(items).k)
       IN DecodeDict(ref, BindKeys(ref, d, Head(items).v, group, used), Tail(items), used)

\* The list format with the assignment skipped for a repeated name.
RECURSIVE DecodeListKeepFirst(_, _, _, _)
DecodeListKeepFirst(ref, d, list, used) ==
  IF list = <<>> THEN d
  ELSE LET group == GroupFromBytes(NewId(used \cup IdsOf(d)), ref, Head(list))
       IN DecodeListKeepFirst(
            ref,
            IF DictHas(d, group.name) THEN d
            ELSE SetItem(ref, d, group.name, group, used).d,
            Tail(list), used)

\* from_bytes, lines 84-93: the list format; a repeated name warns, then assigns.
RECURSIVE DecodeList(_, _, _, _)
DecodeList(ref, d, list, used) ==
  IF list = <<>> THEN d
  ELSE LET group == GroupFromBytes(NewId(used \cup IdsOf(d)), ref, Head(list))
       IN DecodeList(ref, SetItem(ref, d, group.name, group, used).d, Tail(list), used)

\* from_bytes, lines 74-97, after clear() and _ensure_doc(): the new dict.
Decode(ref, b, used) ==
  IF b # <<>> /\ b # EMPTY_BYTES
  THEN LET msg == Loads(b)
       IN IF msg.kind = "dict" THEN DecodeDict(ref, <<>>, msg.dict, used)
          ELSE IF msg.kind = "list" THEN DecodeList(ref, <<>>, msg.list, used)
          ELSE <<>>
  ELSE <<>>

\* from_bytes: clear(), then _ensure_doc(), then the decode.
FromBytes(ref, b, used) ==
  IF EnsureDoc(ref) # "none" THEN [d |-> <<>>, err |-> EnsureDoc(ref)]
  ELSE [d |-> Decode(ref, b, used), err |-> "none"]

\* copy handing the new container the groups of the old one.
CopyDataShared(doc, d, used) == d

\* copy, line 45: SpanGroups(doc).from_bytes(self.to_bytes())
CopyData(doc, d, used) == FromBytes(doc, ToBytes(d), used).d

\* ------------------------------------------------------------------ inputs
Contents(names, spanseqs) == {[name |-> n, spans |-> sp] : n \in names, sp \in spanseqs}
GroupBytes(names, spanseqs) == {GroupToBytes(x) : x \in Contents(names, spanseqs)}

\* Groups some container holds, and groups the caller constructs for the call:
\* SpanGroup(doc, name=n, spans=sp) on a live Doc.
StoredGroups == UNION {{data[c][i].v : i \in 1..Len(data[c])} : c \in made}
FreshGroups(spanseqs) ==
  {Group(NewId(UsedIds(data)), doc, n, sp) : doc \in alive, n \in Labels, sp \in spanseqs}
PlainValues(spanseqs) == {Plain(sp) : sp \in spanseqs}
Values(spanseqs) == StoredGroups \cup FreshGroups(spanseqs) \cup PlainValues(spanseqs)
Items(keys, spanseqs) == {[k |-> key, v |-> value] : key \in keys, value \in Values(spanseqs)}

\* Byte strings handed to from_bytes: b"", the empty sentinel, an encoded integer,
\* lists of group bytes (first format), and what to_bytes returns (second format).
ListInputs(names, spanseqs, n) ==
  {DumpsList(l) : l \in SeqsUpTo(GroupBytes(names, spanseqs), n) \ {<<>>}}
DictInputs == {ToBytes(data[c]) : c \in made}

\* Dicts of the second format written by hand: distinct keys, each with a list of
\* distinct labels (a label may stand in more than one list).
KeyLists == {l \in SeqsUpTo(Labels, Cardinality(Labels)) :
               \A i, j \in 1..Len(l) : i # j => l[i] # l[j]}
WrittenDicts(spanseqs, n) ==
  {DumpsMap(m) : m \in {x \in SeqsUpTo([k : GroupBytes(Labels, spanseqs), v : KeyLists], n) :
                          \A i, j \in 1..Len(x) : i # j => x[i].k # x[j].k}}

\* What the two specifications hand to from_bytes besides DictInputs.
LifeBytes(keys) == {<<>>, EMPTY_BYTES, DumpsInt(5)} \cup ListInputs(keys, {<<>>}, 1)
CodecBytes ==
  {<<>>, EMPTY_BYTES, DumpsInt(5)} \cup ListInputs(Labels, SpanSeqs, MaxListLen)
    \cup WrittenDicts({<<>>}, MaxDictLen)

\* ------------------------------------------------------------ the machine
\* The call made last: the operation, the container, what it raised, its arguments,
\* what it returned, and how many entries the container held when it was called.
Op(op, c, err, key, val, bytes, other, ret) ==
  [op |-> op, c |-> c, err |-> err, key |-> key, vkind |-> val.kind, vdoc |-> val.doc,
   bytes |-> bytes, other |-> other, ret |-> ret, had |-> Len(data[c])]

Init ==
  /\ alive = Docs
  /\ made = {1}
  /\ doc_ref = [c \in Slots |-> IF c = 1 THEN 1 ELSE None]
  /\ data = [c \in Slots |-> <<>>]
  /\ last = [op |-> "init", c |-> 1, err |-> "none", key |-> "-", vkind |-> "none",
             vdoc |-> None, bytes |-> <<>>, other |-> None, ret |-> None, had |-> 0]

\* __init__, line 30: UserDict.__init__ stores each item through __setitem__.
RECURSIVE Update(_, _, _, _)
Update(ref, d, items, used) ==
  IF items = <<>> THEN [d |-> d, err |-> "none"]
  ELSE LET r == SetItem(ref, d, Head(items).k, Head(items).v, used)
       IN IF r.err # "none" THEN r ELSE Update(ref, r.d, Tail(items), used)

\* SpanGroups(doc, items)
New(doc, items) ==
  /\ made # Slots
  /\ LET n == Min(Slots \ made)
         r == Update(doc, <<>>, items, UsedIds(data))
     IN /\ IF r.err = "none"
           THEN /\ made' = made \cup {n}
                /\ doc_ref' = [doc_ref EXCEPT ![n] = doc]
                /\ data' = Renumber([data EXCEPT ![n] = r.d])
           ELSE UNCHANGED <<made, doc_ref, data>>
        /\ last' = Op("new", n, r.err, "-", NoValue, <<>>, doc, None)
  /\ UNCHANGED alive

\* self[key] = value
Put(c, key, value) ==
  /\ LET r == SetItem(DocRef(c), data[c], key, value, UsedIds(data))
     IN /\ data' = Renumber([data EXCEPT ![c] = r.d])
        /\ last' = Op("put", c, r.err, key, value, <<>>, None, None)
  /\ UNCHANGED <<alive, made, doc_ref>>

\* del self[key]
Delete(c, key) ==
  /\ DictHas(data[c], key)
  /\ data' = Renumber([data EXCEPT ![c] = DictDel(data[c], key)])
  /\ last' = Op("delete", c, "none", key, NoValue, <<>>, None, None)
  /\ UNCHANGED <<alive, made, doc_ref>>

\* self.clear()
Clear(c) ==
  /\ data' = Renumber([data EXCEPT ![c] = <<>>])
  /\ last' = Op("clear", c, "none", "-", NoValue, <<>>, None, None)
  /\ UNCHANGED <<alive, made, doc_ref>>

\* self.to_bytes()
ToBytesCall(c) ==
  /\ last' = Op("to_bytes", c, "none", "-", NoValue, ToBytes(data[c]), None, None)
  /\ UNCHANGED <<alive, made, doc_ref, data>>

\* self.from_bytes(b)
FromBytesCall(c, b) ==
  /\ LET r == FromBytes(DocRef(c), b, UsedIds([data EXCEPT ![c] = <<>>]))
     IN /\ data' = Renumber([data EXCEPT ![c] = r.d])
        /\ last' = Op("from_bytes", c, r.err, "-", NoValue, b, None, None)
  /\ UNCHANGED <<alive, made, doc_ref>>

\* self.copy(doc): doc is a live Doc, or None for the container's own.
Copy(c, target) ==
  /\ made # Slots
  /\ LET n == Min(Slots \ made)
         doc == IF target = None THEN DocRef(c) ELSE target
         err == IF target = None THEN EnsureDoc(DocRef(c)) ELSE "none"
     IN /\ IF err = "none"
           THEN /\ made' = made \cup {n}
                /\ doc_ref' = [doc_ref EXCEPT ![n] = doc]
                /\ data' = Renumber([data EXCEPT ![n] = CopyData(doc, data[c], UsedIds(data))])
           ELSE UNCHANGED <<made, doc_ref, data>>
        /\ last' = Op("copy", c, err, "-", NoValue, <<>>, target,
                      IF err = "none" THEN n ELSE None)
  /\ UNCHANGED alive

\* The last strong reference to a Doc goes away: weak references to it are dead.
DestroyDoc(doc) ==
  /\ alive' = alive \ {doc}
  /\ last' = Op("destroy", 1, "none", "-", NoValue, <<>>, doc, None)
  /\ UNCHANGED <<made, doc_ref, data>>

\* A container other than the Doc's own first one is discarded.
Discard(c) ==
  /\ c # 1
  /\ made' = made \ {c}
  /\ doc_ref' = [doc_ref EXCEPT ![c] = None]
  /\ data' = Renumber([data EXCEPT ![c] = <<>>])
  /\ last' = Op("discard", c, "none", "-", NoValue, <<>>, None, None)
  /\ UNCHANGED alive

\* The life of the containers of the Docs, with the labels of keys; every group
\* has the empty span list.
Life(keys) ==
  \/ \E doc \in alive, items \in SeqsUpTo(Items(keys, {<<>>}), MaxItems) : New(doc, items)
  \/ \E c \in made, key \in keys, value \in Values({<<>>}) : Put(c, key, value)
  \/ \E c \in made, key \in keys : Delete(c, key)
  \/ \E c \in made : Clear(c)
  \/ \E c \in made, b \in LifeBytes(keys) \cup DictInputs : FromBytesCall(c, b)
  \/ \E c \in made, target \in alive \cup {None} : Copy(c, target)
  \/ \E doc \in alive : DestroyDoc(doc)
  \/ \E c \in made : Discard(c)

\* Containers with one label.
Next == Life({"A"})
Spec == Init /\ [][Next]_vars

\* Containers with every label.
NextWide == Life(Labels)
SpecWide == Init /\ [][NextWide]_vars

\* The wire formats, on the Doc's own container; groups differ in name and spans.
NextCodec ==
  \/ \E key \in Labels, value \in Values(SpanSeqs) : Put(1, key, value)
  \/ \E key \in Labels : Delete(1, key)
  \/ ToBytesCall(1)
  \/ \E b \in CodecBytes \cup DictInputs : FromBytesCall(1, b)
  \/ DestroyDoc(1)

SpecCodec == Init /\ [][NextCodec]_vars

\* ------------------------------------------------------------ properties
\* What a container maps: each label with the content of its group.
View(d) == {<<d[i].k, Content(d[i].v)>> : i \in 1..Len(d)}

\* Two dicts with the same keys in the same order, the same group content under
\* each, and the same keys sharing an instance.
SameEntries(d, e) ==
  /\ Len(d) = Len(e)
  /\ \A i \in 1..Len(d) :
       /\ d[i].k = e[i].k
       /\ Content(d[i].v) = Content(e[i].v)
       /\ d[i].v.doc = e[i].v.doc
       /\ \A j \in 1..Len(d) : (d[i].v.id = d[j].v.id) <=> (e[i].v.id = e[j].v.id)

InSeq(x, sq) == \E i \in 1..Len(sq) : sq[i] = x
\* The keys of d bound to the instance d[i] holds, in d's iteration order.
KeysOfInstance(d, i) ==
  LET at == SelectSeq([j \in 1..Len(d) |-> j], LAMBDA j : d[j].v.id = d[i].v.id)
  IN [n \in 1..Len(at) |-> d[at[n]].k]

DecodedOk == last.op = "from_bytes" /\ last.err = "none"
DecodedShape(kind) ==
  /\ DecodedOk
  /\ last.bytes # <<>>
  /\ last.bytes # EMPTY_BYTES
  /\ Loads(last.bytes).kind = kind

\* C1: from_bytes(to_bytes(c)) on a container with a live parent gives back c's
\* labels, each with a group content-equal to the one c held under it.
C1_RoundTrip ==
  [][(last'.op = "from_bytes" /\ last'.err = "none"
        /\ last'.bytes = ToBytes(data[last'.c]))
      => View(data'[last'.c]) = View(data[last'.c])]_vars

\* C2: after from_bytes on a dict of the second format no two labels of the
\* container reference the same Group instance.
C2_NoSharedInstance ==
  DecodedShape("dict") =>
    \A i, j \in 1..Len(data[last.c]) :
      i # j => data[last.c][i].v.id # data[last.c][j].v.id

\* The entry of the decoded dict that binds label k last.
LastEntry(m, k) == CHOOSE i \in 1..Len(m) :
  /\ InSeq(k, m[i].v)
  /\ \A j \in 1..Len(m) : InSeq(k, m[j].v) => j <= i

\* C2 (amended): from_bytes on a dict of the second format decodes each key once
\* and binds every label of its list to that one instance: the container holds
\* exactly the labels of the lists, each with the content of the key that bound
\* it last, and two labels share an instance exactly when the same entry bound them.
C2_SharedInstancePerKey ==
  DecodedShape("dict") =>
    LET m == Loads(last.bytes).dict
        d == data[last.c]
    IN /\ DictKeys(d) = {k \in Labels : \E i \in 1..Len(m) : InSeq(k, m[i].v)}
       /\ \A i \in 1..Len(d) :
            /\ GroupToBytes(d[i].v) = m[LastEntry(m, d[i].k)].k
            /\ \A j \in 1..Len(d) :
                 (d[i].v.id = d[j].v.id) <=> (LastEntry(m, d[i].k) = LastEntry(m, d[j].k))

C2_Witness ==
  /\ DecodedShape("dict")
  /\ \E i, j \in 1..Len(data[last.c]) :
       i # j /\ data[last.c][i].v.id = data[last.c][j].v.id

NameOfBlob(b) == CodeStr(b[1])
\* Two blobs of the decoded list carry the same name and differ.
HasCollision(l) ==
  \E i, j \in 1..Len(l) : i < j /\ NameOfBlob(l[i]) = NameOfBlob(l[j]) /\ l[i] # l[j]

\* C3: after from_bytes on a list of the first format, a name holds the group of
\* the first blob of the list that carries it.
C3_FirstBlobKept ==
  DecodedShape("list") =>
    LET l == Loads(last.bytes).list
        d == data[last.c]
    IN \A i \in 1..Len(l) :
         (\A j \in 1..(i - 1) : NameOfBlob(l[j]) # NameOfBlob(l[i]))
           => /\ DictHas(d, NameOfBlob(l[i]))
              /\ GroupToBytes(DictGet(d, NameOfBlob(l[i]))) = l[i]

\* C3 (amended): after from_bytes on a list of the first format the container
\* holds exactly the names of the blobs, one entry each, and a name holds the
\* group of the last blob of the list that carries it.
C3_LastBlobKept ==
  DecodedShape("list") =>
    LET l == Loads(last.bytes).list
        d == data[last.c]
    IN /\ DictKeys(d) = {NameOfBlob(l[i]) : i \in 1..Len(l)}
       /\ \A i \in 1..Len(l) :
            (\A j \in (i + 1)..Len(l) : NameOfBlob(l[j]) # NameOfBlob(l[i]))
              => GroupToBytes(DictGet(d, NameOfBlob(l[i]))) = l[i]

C3_Witness ==
  /\ DecodedShape("list")
  /\ HasCollision(Loads(last.bytes).list)
  /\ Len(data[last.c]) = 1

\* C4: from_bytes on bytes that decode to neither a list nor a dict raises.
C4_OtherShapeRaises ==
  (/\ last.op = "from_bytes"
   /\ last.bytes # <<>>
   /\ last.bytes # EMPTY_BYTES
   /\ Loads(last.bytes).kind = "other") => last.err # "none"

\* Invariant I1: every stored group is bound to the Doc of its container.
I1 == \A c \in made : \A i \in 1..Len(data[c]) : GroupDoc(data[c][i].v) = doc_ref[c]

\* C5: I1 holds after every call, and a put of a Group bound to another Doc
\* fails (the assertion, when that Doc is there to be compared) and leaves the
\* container as it was.
C5_Ownership ==
  [][/\ I1'
     /\ (last'.op = "put" /\ last'.vkind = "group" /\ last'.vdoc # doc_ref[last'.c])
          => /\ last'.err # "none"
             /\ last'.vdoc \in alive => last'.err = "AssertionError"
             /\ data'[last'.c] = data[last'.c]]_vars

C5_Witness ==
  /\ last.op = "put" /\ last.vkind = "group" /\ last.vdoc # doc_ref[last.c]
  /\ last.err = "AssertionError"
  /\ doc_ref[last.c] \in alive
  /\ last.vdoc \in alive
  /\ \E c \in made : doc_ref[c] = 2 /\ data[c] # <<>>

NeedsDoc ==
  \/ last.op = "put" /\ last.vkind = "plain"
  \/ last.op = "from_bytes"
  \/ last.op = "copy" /\ last.other = None

\* C6: with the Doc destroyed, put of plain spans, from_bytes and copy without a
\* target raise E866.
C6_OwnerUnavailable ==
  (NeedsDoc /\ doc_ref[last.c] \notin alive) => last.err = "E866"

C6_Witness ==
  /\ last.op = "from_bytes" /\ last.bytes = EMPTY_BYTES
  /\ doc_ref[last.c] \notin alive
  /\ last.err = "E866"

\* C7: a copy shares no Group instance with its source, and a put, delete, clear
\* or from_bytes on one container leaves every other container as it was.
C7_CopyIndependence ==
  [][/\ (last'.op = "copy" /\ last'.err = "none")
          => IdsOf(data'[last'.ret]) \cap IdsOf(data'[last'.c]) = {}
     /\ (last'.op \in {"put", "delete", "clear", "from_bytes"})
          => \A c \in made \ {last'.c} : SameEntries(data'[c], data[c])]_vars

C7_Witness ==
  /\ last.op = "copy" /\ last.err = "none"
  /\ data[last.ret] # <<>>
  /\ View(data[last.ret]) = View(data[last.c])

\* C8: to_bytes on a non-empty container writes one dict entry per stored
\* instance: its bytes, with the labels bound to it in iteration order.
C8_EntryPerInstance ==
  (last.op = "to_bytes" /\ data[last.c] # <<>>) =>
    LET d == data[last.c]
        m == Loads(last.bytes).dict
    IN /\ last.bytes[1] = 128 + Cardinality(IdsOf(d))
       /\ \A i \in 1..Len(d) :
            \E n \in 1..Len(m) :
              /\ m[n].k = GroupToBytes(d[i].v)
              /\ m[n].v = KeysOfInstance(d, i)
              /\ \A o \in 1..Len(m) : InSeq(d[i].k, m[o].v) => o = n

\* C9: to_bytes on an empty container returns the encoded empty list, and
\* from_bytes on it or on b"" with a live Doc leaves the container empty.
C9_EmptyRoundTrip ==
  /\ (last.op = "to_bytes" /\ data[last.c] = <<>>) => last.bytes = DumpsList(<<>>)
  /\ (/\ last.op = "from_bytes"
      /\ last.bytes \in {<<>>, DumpsList(<<>>)}
      /\ doc_ref[last.c] \in alive)
       => (last.err = "none" /\ data[last.c] = <<>>)

C9_Witness ==
  /\ last.op = "from_bytes" /\ last.bytes = DumpsList(<<>>)
  /\ doc_ref[last.c] \in alive
  /\ last.had > 0
  /\ data[last.c] = <<>>

\* C10: a call that raises E866 leaves the entries of its container as they were.
C10_FailsBeforeChange ==
  [][(last'.err = "E866" /\ last'.op \in {"put", "from_bytes", "copy"})
      => data'[last'.c] = data[last'.c]]_vars
====
